---- MODULE Spec2Model ----
(***************************************************************************)
(* The flag-gated pipeline PoC: the Gate Lambda (poc/gate_lambda.py), the  *)
(* Stage Worker Lambda (poc/stage_worker_lambda.py) and the Pipeline       *)
(* Router Lambda (poc/router_lambda.py), each as a handler that runs in    *)
(* steps between its calls to the outside (LaunchDarkly, CodePipeline).    *)
(***************************************************************************)
EXTENDS Naturals, Sequences, FiniteSets, TLC

VARIABLES
    proc,          \* per Lambda function: its process ("cold", "ready", "failed")
    gate,          \* Gate Lambda invocations, by CodePipeline job id
    worker,        \* Stage Worker Lambda invocations, by CodePipeline job id
    router,        \* Router Lambda invocations, by request id
    codepipeline,  \* put_job_*_result calls received, by job id
    executions     \* start_pipeline_execution calls received, by caller

vars == <<proc, gate, worker, router, codepipeline, executions>>

-----------------------------------------------------------------------------
(* Bounds and input sets *)

\* longest required-stages list the flag service serves, ALL_STAGES aside
MaxRequired == 2

\* the stage names such a list is built from
FlagStages == {"build", "sast"}

GateJobs == {"gate-job-1", "gate-job-2"}
WorkerJobs == {"worker-job-1", "worker-job-2"}
RouterRequests == {"request-1", "request-2"}
Jobs == GateJobs \cup WorkerJobs

\* a key that the JSON object does not hold
Absent == "<absent>"

-----------------------------------------------------------------------------
(* Python helpers *)

\* dict.get(key, default) on a parsed JSON object
DictGet(d, key, default) == IF d[key] = Absent THEN default ELSE d[key]

\* d[key]: raises KeyError when the key is missing
HasKey(d, key) == d[key] # Absent

\* variant: a membership test that looks at the first entry only
ListContainsHead(list, x) == list # <<>> /\ Head(list) = x

\* x in list: Python scans the list from the front
RECURSIVE ListContains(_, _)
ListContains(list, x) ==
    IF list = <<>> THEN FALSE
    ELSE IF Head(list) = x THEN TRUE
    ELSE ListContains(Tail(list), x)

-----------------------------------------------------------------------------
(* LaunchDarkly client *)

\* what the flag service holds for one flag and one context at one moment
FlagOk(v) == [status |-> "ok", value |-> v]
FlagUnset(none) == [status |-> "unset", value |-> none]
FlagError(none) == [status |-> "error", value |-> none]
\* no evaluation made yet
FlagNone(none) == [status |-> "none", value |-> none]

\* ld_client.variation(key, context, default): the served value, or the
\* caller's default when the flag is undefined or its evaluation errors
variation(flag, default) ==
    IF flag.status = "ok" THEN flag.value ELSE default

-----------------------------------------------------------------------------
(* Gate Lambda *)

ALL_STAGES == <<"source", "build", "unit-test", "sast", "sca",
                "change-approval", "deploy", "integration-test">>

StageEnum == {ALL_STAGES[i] : i \in DOMAIN ALL_STAGES}

RequiredLists ==
    UNION {[1..n -> FlagStages] : n \in 0..MaxRequired} \cup {ALL_STAGES}

\* states of the flag pipeline-required-stages
RequiredFlags ==
    {FlagOk(l) : l \in RequiredLists}
        \cup {FlagUnset(<<>>), FlagError(<<>>)}

\* UserParameters of a gate action
GateParams ==
    [valid_json : {TRUE},
     stage_name : StageEnum \cup {"canary-bake", Absent},
     app_name : {"drug-research-portal", Absent},
     pipeline_version : {"v1", Absent}]
    \cup {[valid_json |-> FALSE, stage_name |-> Absent, app_name |-> Absent,
           pipeline_version |-> Absent]}

NoGateParams ==
    [valid_json |-> TRUE, stage_name |-> Absent, app_name |-> Absent,
     pipeline_version |-> Absent]

GateIdle ==
    [pc |-> "idle", params |-> NoGateParams, synced |-> FALSE,
     flag |-> FlagNone(<<>>), required_stages |-> <<>>, exc |-> "none"]

\* outputVariables of the gate's put_job_success_result
GateOutput(decision, g) ==
    [gate_decision |-> decision,
     stage_name |-> g.params.stage_name,
     pipeline_version |-> DictGet(g.params, "pipeline_version", "?")]

\* lines 95-115: the decision the handler reports
GateDecision(stage_name, required_stages) ==
    IF ~ListContains(required_stages, stage_name) THEN "skip" ELSE "proceed"

\* variant: no stage required when the flag is undefined or errors
GateRequiredNone(flag) == variation(flag, <<>>)

\* lines 90-92: the required stages, all of them by default
GateRequired(flag) == variation(flag, ALL_STAGES)

\* module initialization: the LD client initializes or the import raises
ColdStart(p) ==
    /\ proc[p] = "cold"
    /\ \E ok \in BOOLEAN :
          proc' = [proc EXCEPT ![p] = IF ok THEN "ready" ELSE "failed"]
    /\ UNCHANGED <<gate, worker, router, codepipeline, executions>>

\* variant: the handler also serves in a process whose LD client failed to
\* initialize
GateInvokeAnyway(j, params) ==
    /\ proc["gate"] # "cold"
    /\ gate[j].pc = "idle"
    /\ gate' = [gate EXCEPT ![j] =
          IF ~params.valid_json
          THEN [GateIdle EXCEPT !.pc = "raised", !.params = params,
                                !.exc = "JSONDecodeError"]
          ELSE IF ~HasKey(params, "stage_name") \/ ~HasKey(params, "app_name")
          THEN [GateIdle EXCEPT !.pc = "raised", !.params = params,
                                !.exc = "KeyError"]
          ELSE [GateIdle EXCEPT !.pc = "parsed", !.params = params]]
    /\ UNCHANGED <<proc, worker, router, codepipeline, executions>>

\* handler, lines 67-84: read the job and its UserParameters
GateInvoke(j, params) ==
    /\ proc["gate"] = "ready"
    /\ gate[j].pc = "idle"
    /\ gate' = [gate EXCEPT ![j] =
          IF ~params.valid_json
          THEN [GateIdle EXCEPT !.pc = "raised", !.params = params,
                                !.exc = "JSONDecodeError"]
          ELSE IF ~HasKey(params, "stage_name") \/ ~HasKey(params, "app_name")
          THEN [GateIdle EXCEPT !.pc = "raised", !.params = params,
                                !.exc = "KeyError"]
          ELSE [GateIdle EXCEPT !.pc = "parsed", !.params = params]]
    /\ UNCHANGED <<proc, worker, router, codepipeline, executions>>

\* variant: the sync is left out once the process has synced for another job
GateSyncOnce(j) ==
    /\ gate[j].pc = "parsed"
    /\ IF \E k \in DOMAIN gate \ {j} : gate[k].synced
       THEN gate' = [gate EXCEPT ![j] = [@ EXCEPT !.pc = "synced"]]
       ELSE \E ok \in BOOLEAN :
               gate' = [gate EXCEPT ![j] =
                  IF ok THEN [@ EXCEPT !.pc = "synced", !.synced = TRUE]
                  ELSE [@ EXCEPT !.pc = "raised", !.exc = "LDError"]]
    /\ UNCHANGED <<proc, worker, router, codepipeline, executions>>

\* handler, line 87: ld_client.all_flags_state(ld_context)
GateSync(j) ==
    /\ gate[j].pc = "parsed"
    /\ \E ok \in BOOLEAN :
          gate' = [gate EXCEPT ![j] =
             IF ok THEN [@ EXCEPT !.pc = "synced", !.synced = TRUE]
             ELSE [@ EXCEPT !.pc = "raised", !.exc = "LDError"]]
    /\ UNCHANGED <<proc, worker, router, codepipeline, executions>>

\* variant: once the process has evaluated for another job, it answers with
\* the default instead of the flag
GateEvaluateCached(j) ==
    /\ gate[j].pc = "synced"
    /\ \E flag \in RequiredFlags :
          gate' = [gate EXCEPT ![j] =
             [@ EXCEPT !.pc = "evaluated", !.flag = flag,
                       !.required_stages =
                          IF \E k \in DOMAIN gate : gate[k].flag.status # "none"
                          THEN ALL_STAGES
                          ELSE GateRequired(flag)]]
    /\ UNCHANGED <<proc, worker, router, codepipeline, executions>>

\* handler, lines 90-93: evaluate pipeline-required-stages
GateEvaluate(j) ==
    /\ gate[j].pc = "synced"
    /\ \E flag \in RequiredFlags :
          gate' = [gate EXCEPT ![j] =
             [@ EXCEPT !.pc = "evaluated", !.flag = flag,
                       !.required_stages = GateRequired(flag)]]
    /\ UNCHANGED <<proc, worker, router, codepipeline, executions>>

\* variant: the parameters are kept in the module, where the invocation that
\* parsed last overwrites them
GateReportShared(j) ==
    /\ gate[j].pc = "evaluated"
    /\ LET k == IF \E i \in DOMAIN gate \ {j} :
                      gate[i].pc \in {"parsed", "synced", "evaluated"}
                THEN CHOOSE i \in DOMAIN gate \ {j} :
                        gate[i].pc \in {"parsed", "synced", "evaluated"}
                ELSE j
           decision ==
              GateDecision(gate[k].params.stage_name, gate[j].required_stages)
           call == [kind |-> "success",
                    outputVariables |-> GateOutput(decision, gate[k])]
       IN /\ codepipeline' =
                [codepipeline EXCEPT ![j] = Append(@, call)]
          /\ \E ok \in BOOLEAN :
                gate' = [gate EXCEPT ![j] =
                   IF ok THEN [@ EXCEPT !.pc = "done"]
                   ELSE [@ EXCEPT !.pc = "raised", !.exc = "ClientError"]]
    /\ UNCHANGED <<proc, worker, router, executions>>

\* handler, lines 95-115: report the decision to CodePipeline
GateReport(j) ==
    /\ gate[j].pc = "evaluated"
    /\ LET decision ==
              GateDecision(gate[j].params.stage_name, gate[j].required_stages)
           call == [kind |-> "success",
                    outputVariables |-> GateOutput(decision, gate[j])]
       IN /\ codepipeline' =
                [codepipeline EXCEPT ![j] = Append(@, call)]
          /\ \E ok \in BOOLEAN :
                gate' = [gate EXCEPT ![j] =
                   IF ok THEN [@ EXCEPT !.pc = "done"]
                   ELSE [@ EXCEPT !.pc = "raised", !.exc = "ClientError"]]
    /\ UNCHANGED <<proc, worker, router, executions>>

\* the steps of the gate's invocations for the jobs J, given parameters of P
GateSteps(J, P) ==
    \/ \E j \in J, params \in P : GateInvoke(j, params)
    \/ \E j \in J : GateSync(j)
    \/ \E j \in J : GateEvaluate(j)
    \/ \E j \in J : GateReport(j)

GateNext == ColdStart("gate") \/ GateSteps(GateJobs, GateParams)

-----------------------------------------------------------------------------
(* Stage Worker Lambda *)

STAGE_WORK ==
    [x \in {"build", "unit-test", "sast", "sca", "change-approval", "deploy",
            "integration-test"} |->
       CASE x = "build" ->
              [tool |-> "Build",
               result |-> "Build succeeded - artifacts packaged",
               duration |-> 1]
         [] x = "unit-test" ->
              [tool |-> "UnitTest", result |-> "47 tests passed, 0 failed",
               duration |-> 1]
         [] x = "sast" ->
              [tool |-> "Semgrep",
               result |-> "Scan complete: 0 critical findings, 2 informational",
               duration |-> 2]
         [] x = "sca" ->
              [tool |-> "Snyk",
               result |-> "All dependencies clear - no known vulnerabilities (SBOM generated)",
               duration |-> 2]
         [] x = "change-approval" ->
              [tool |-> "ServiceNow",
               result |-> "Change record CR-2024-0042 created and auto-approved (21 CFR Part 11 compliant)",
               duration |-> 1]
         [] x = "deploy" ->
              [tool |-> "Deploy",
               result |-> "Deployment complete - health checks passing",
               duration |-> 1]
         [] x = "integration-test" ->
              [tool |-> "IntegrationTest",
               result |-> "12 integration tests passed, 0 failed",
               duration |-> 1]]

\* variant: a stage outside the table gets the table's first entry
StageWorkForBuild(stage_name) ==
    IF stage_name \in DOMAIN STAGE_WORK THEN STAGE_WORK[stage_name]
    ELSE STAGE_WORK["build"]

\* do_stage_work, lines 91-96: the table's entry or the generic placeholder
StageWorkFor(stage_name) ==
    IF stage_name \in DOMAIN STAGE_WORK THEN STAGE_WORK[stage_name]
    ELSE [tool |-> "generic",
          result |-> stage_name \o " completed successfully",
          duration |-> 1]

\* do_stage_work: what it returns, and the seconds it sleeps
do_stage_work(stage_name, app_name) ==
    LET work == StageWorkFor(stage_name)
    IN [tool |-> work.tool, result |-> work.result, slept |-> work.duration]

\* UserParameters of a worker action
WorkerParams ==
    [valid_json : {TRUE},
     stage_name : StageEnum \cup {"canary-bake", Absent},
     app_name : {"drug-research-portal", Absent},
     pipeline_version : {"v1", Absent},
     gate_decision : {"proceed", "skip", "SKIP", Absent}]
    \cup {[valid_json |-> FALSE, stage_name |-> Absent, app_name |-> Absent,
           pipeline_version |-> Absent, gate_decision |-> Absent]}

NoWorkerParams ==
    [valid_json |-> TRUE, stage_name |-> Absent, app_name |-> Absent,
     pipeline_version |-> Absent, gate_decision |-> Absent]

NoOutput == [tool |-> Absent, result |-> Absent, slept |-> 0]

WorkerIdle ==
    [pc |-> "idle", params |-> NoWorkerParams, gate_decision |-> Absent,
     work_calls |-> 0, output |-> NoOutput, exc |-> "none"]

\* outputVariables of the worker's put_job_success_result
WorkerOutput(gate_result, w) ==
    [gate_result |-> gate_result,
     stage_name |-> w.params.stage_name,
     pipeline_version |-> DictGet(w.params, "pipeline_version", "?"),
     tool |-> w.output.tool,
     result |-> w.output.result]

\* variant: the decision received is not read at all
WorkerGateDecisionIgnored(params) == "proceed"

\* variant: a missing decision read as skip
WorkerGateDecisionSkip(params) == DictGet(params, "gate_decision", "skip")

\* handler, line 136: the decision received, proceed when none is
WorkerGateDecision(params) == DictGet(params, "gate_decision", "proceed")

\* handler, lines 127-136: read the job and its UserParameters
WorkerInvoke(j, params) ==
    /\ worker[j].pc = "idle"
    /\ worker' = [worker EXCEPT ![j] =
          IF ~params.valid_json
          THEN [WorkerIdle EXCEPT !.pc = "raised", !.params = params,
                                  !.exc = "JSONDecodeError"]
          ELSE IF ~HasKey(params, "stage_name")
          THEN [WorkerIdle EXCEPT !.pc = "raised", !.params = params,
                                  !.exc = "KeyError"]
          ELSE [WorkerIdle EXCEPT
                   !.pc = "received", !.params = params,
                   !.gate_decision = WorkerGateDecision(params)]]
    /\ UNCHANGED <<proc, gate, router, codepipeline, executions>>

\* variant: the no-op branch taken on another spelling of the decision
WorkerSkipsUpper(w) == w.gate_decision = "SKIP"

\* variant: the no-op branch taken on every decision but proceed
WorkerSkipsLoose(w) == w.gate_decision # "proceed"

\* handler, line 138: the test that selects the no-op branch
WorkerSkips(w) == w.gate_decision = "skip"

\* handler, lines 138-148: no-op, report gate_result = skipped
WorkerSkip(j) ==
    /\ worker[j].pc = "received"
    /\ WorkerSkips(worker[j])
    /\ codepipeline' =
          [codepipeline EXCEPT ![j] =
              Append(@, [kind |-> "success",
                         outputVariables |->
                             WorkerOutput("skipped", worker[j])])]
    /\ \E ok \in BOOLEAN :
          worker' = [worker EXCEPT ![j] =
             IF ok THEN [@ EXCEPT !.pc = "skipped"]
             ELSE [@ EXCEPT !.pc = "raised", !.exc = "ClientError"]]
    /\ UNCHANGED <<proc, gate, router, executions>>

\* handler, lines 150-151: run the stage's placeholder work
WorkerExecute(j) ==
    /\ worker[j].pc = "received"
    /\ ~WorkerSkips(worker[j])
    /\ worker' = [worker EXCEPT ![j] =
          [@ EXCEPT !.pc = "executing",
                    !.work_calls = @ + 1,
                    !.output = do_stage_work(worker[j].params.stage_name,
                                             DictGet(worker[j].params,
                                                     "app_name", "?"))]]
    /\ UNCHANGED <<proc, gate, router, codepipeline, executions>>

\* variant: a report call that raises sends the invocation round again
WorkerReportRetry(j) ==
    /\ worker[j].pc = "executing"
    /\ codepipeline' =
          [codepipeline EXCEPT ![j] =
              Append(@, [kind |-> "success",
                         outputVariables |->
                             WorkerOutput("executed", worker[j])])]
    /\ \E ok \in BOOLEAN :
          worker' = [worker EXCEPT ![j] =
             IF ok THEN [@ EXCEPT !.pc = "completed"]
             ELSE IF Len(codepipeline[j]) = 0
             THEN [@ EXCEPT !.pc = "received"]
             ELSE [@ EXCEPT !.pc = "raised", !.exc = "ClientError"]]
    /\ UNCHANGED <<proc, gate, router, executions>>

\* handler, lines 153-162: report gate_result = executed
WorkerReport(j) ==
    /\ worker[j].pc = "executing"
    /\ codepipeline' =
          [codepipeline EXCEPT ![j] =
              Append(@, [kind |-> "success",
                         outputVariables |->
                             WorkerOutput("executed", worker[j])])]
    /\ \E ok \in BOOLEAN :
          worker' = [worker EXCEPT ![j] =
             IF ok THEN [@ EXCEPT !.pc = "completed"]
             ELSE [@ EXCEPT !.pc = "raised", !.exc = "ClientError"]]
    /\ UNCHANGED <<proc, gate, router, executions>>

\* the steps of the worker's invocations for the jobs J, given parameters of P
WorkerSteps(J, P) ==
    \/ \E j \in J, params \in P : WorkerInvoke(j, params)
    \/ \E j \in J : WorkerSkip(j)
    \/ \E j \in J : WorkerExecute(j)
    \/ \E j \in J : WorkerReport(j)

WorkerNext == WorkerSteps(WorkerJobs, WorkerParams)

-----------------------------------------------------------------------------
(* Pipeline Router Lambda *)

PIPELINE_V1 == "shared-pipeline-v1"
PIPELINE_V2 == "shared-pipeline-v2"

PIPELINE_MAP == [v1 |-> PIPELINE_V1, v2 |-> PIPELINE_V2]

\* variant: a variant outside the table names its own pipeline
PipelineForUnchecked(pipeline_version) ==
    IF pipeline_version \in DOMAIN PIPELINE_MAP
    THEN PIPELINE_MAP[pipeline_version]
    ELSE "shared-pipeline-" \o pipeline_version

\* PIPELINE_MAP.get(pipeline_version, PIPELINE_MAP["v1"])
PipelineFor(pipeline_version) ==
    IF pipeline_version \in DOMAIN PIPELINE_MAP
    THEN PIPELINE_MAP[pipeline_version]
    ELSE PIPELINE_MAP["v1"]

\* states of the flag pipeline-version
VersionFlags ==
    {FlagOk(v) : v \in {"v1", "v2", "v3"}} \cup {FlagUnset(""), FlagError("")}

\* the router's input event
RouterEvents ==
    [app_name : {"drug-research-portal", Absent},
     revision : {"abc123", Absent}]

NoRouterEvent == [app_name |-> Absent, revision |-> Absent]

NoResult == [statusCode |-> 0, app |-> Absent, pipeline_version |-> Absent,
             pipeline_name |-> Absent, execution_id |-> Absent]

RouterIdle ==
    [pc |-> "idle", event |-> NoRouterEvent, synced |-> FALSE,
     flag |-> FlagNone(""), pipeline_version |-> Absent,
     pipeline_name |-> Absent, exc |-> "none", result |-> NoResult]

\* the id CodePipeline gives the execution a start request creates
ExecutionId(r) == "execution-of-" \o r

\* handler, lines 97-104: the start_pipeline_execution request
StartRequest(r, rec) ==
    [name |-> rec.pipeline_name,
     variables |->
         [APP_NAME |-> DictGet(rec.event, "app_name", "unknown"),
          PIPELINE_VERSION |-> rec.pipeline_version],
     clientRequestToken |->
         DictGet(rec.event, "app_name", "unknown") \o "-" \o r]

\* variant: the patched pipeline as the default
RouterVersionV2(flag) == variation(flag, "v2")

\* handler, line 90: the variant, v1 by default
RouterVersion(flag) == variation(flag, "v1")

\* handler, lines 69-83: read the event, build the LD context
RouterInvoke(r, event) ==
    /\ proc["router"] = "ready"
    /\ router[r].pc = "idle"
    /\ router' = [router EXCEPT ![r] =
          [RouterIdle EXCEPT !.pc = "received", !.event = event]]
    /\ UNCHANGED <<proc, gate, worker, codepipeline, executions>>

\* handler, line 86: ld_client.all_flags_state(ld_context)
RouterSync(r) ==
    /\ router[r].pc = "received"
    /\ \E ok \in BOOLEAN :
          router' = [router EXCEPT ![r] =
             IF ok THEN [@ EXCEPT !.pc = "synced", !.synced = TRUE]
             ELSE [@ EXCEPT !.pc = "raised", !.exc = "LDError"]]
    /\ UNCHANGED <<proc, gate, worker, codepipeline, executions>>

\* handler, lines 89-93: evaluate pipeline-version, look the target up
RouterEvaluate(r) ==
    /\ router[r].pc = "synced"
    /\ \E flag \in VersionFlags :
          LET pipeline_version == RouterVersion(flag)
          IN router' = [router EXCEPT ![r] =
                [@ EXCEPT !.pc = "evaluated", !.flag = flag,
                          !.pipeline_version = pipeline_version,
                          !.pipeline_name = PipelineFor(pipeline_version)]]
    /\ UNCHANGED <<proc, gate, worker, codepipeline, executions>>

\* variant: a failed start request is issued again
RouterStartRetry(r) ==
    /\ router[r].pc = "evaluated"
    /\ \E ok \in BOOLEAN :
          /\ executions' =
                [executions EXCEPT ![r] =
                    Append(@, [request |-> StartRequest(r, router[r]),
                               started |-> ok,
                               pipelineExecutionId |->
                                   IF ok THEN ExecutionId(r) ELSE Absent])]
          /\ router' = [router EXCEPT ![r] =
                IF ok
                THEN [@ EXCEPT
                        !.pc = "returned",
                        !.result =
                           [statusCode |-> 200,
                            app |-> DictGet(router[r].event, "app_name",
                                            "unknown"),
                            pipeline_version |-> router[r].pipeline_version,
                            pipeline_name |-> router[r].pipeline_name,
                            execution_id |-> ExecutionId(r)]]
                ELSE IF Len(executions[r]) = 0 THEN @
                ELSE [@ EXCEPT !.pc = "raised", !.exc = "ClientError"]]
    /\ UNCHANGED <<proc, gate, worker, codepipeline>>

\* handler, lines 95-117: start the pipeline, return the execution id
RouterStart(r) ==
    /\ router[r].pc = "evaluated"
    /\ \E ok \in BOOLEAN :
          /\ executions' =
                [executions EXCEPT ![r] =
                    Append(@, [request |-> StartRequest(r, router[r]),
                               started |-> ok,
                               pipelineExecutionId |->
                                   IF ok THEN ExecutionId(r) ELSE Absent])]
          /\ router' = [router EXCEPT ![r] =
                IF ok
                THEN [@ EXCEPT
                        !.pc = "returned",
                        !.result =
                           [statusCode |-> 200,
                            app |-> DictGet(router[r].event, "app_name",
                                            "unknown"),
                            pipeline_version |-> router[r].pipeline_version,
                            pipeline_name |-> router[r].pipeline_name,
                            execution_id |-> ExecutionId(r)]]
                ELSE [@ EXCEPT !.pc = "raised", !.exc = "ClientError"]]
    /\ UNCHANGED <<proc, gate, worker, codepipeline>>

\* the steps of the router's invocations for the requests R, given events of E
RouterSteps(R, E) ==
    \/ \E r \in R, event \in E : RouterInvoke(r, event)
    \/ \E r \in R : RouterSync(r)
    \/ \E r \in R : RouterEvaluate(r)
    \/ \E r \in R : RouterStart(r)

RouterNext == ColdStart("router") \/ RouterSteps(RouterRequests, RouterEvents)

-----------------------------------------------------------------------------
(* Specifications *)

Init ==
    /\ proc = [p \in {"gate", "router"} |-> "cold"]
    /\ gate = [j \in GateJobs |-> GateIdle]
    /\ worker = [j \in WorkerJobs |-> WorkerIdle]
    /\ router = [r \in RouterRequests |-> RouterIdle]
    /\ codepipeline = [j \in Jobs |-> <<>>]
    /\ executions = [r \in RouterRequests |-> <<>>]

\* the Gate Lambda's process, serving its jobs
SpecGate == Init /\ [][GateNext]_vars

\* the Stage Worker Lambda's process, serving its jobs
SpecWorker == Init /\ [][WorkerNext]_vars

\* the Router Lambda's process, serving its requests
SpecRouter == Init /\ [][RouterNext]_vars

\* one gated stage's two actions: a gate job and a worker job
Next ==
    \/ ColdStart("gate")
    \/ GateSteps({"gate-job-1"}, GateParams)
    \/ WorkerSteps({"worker-job-1"}, WorkerParams)

Spec == Init /\ [][Next]_vars

\* well-formed inputs of one application's sast stage
SastGateParams ==
    {p \in GateParams :
        /\ p.stage_name = "sast"
        /\ p.app_name = "drug-research-portal"
        /\ p.pipeline_version = "v1"}

PortalRouterEvents ==
    {e \in RouterEvents :
        e.app_name = "drug-research-portal" /\ e.revision = "abc123"}

\* the two flag-evaluating processes, each serving concurrent invocations
SyncNext ==
    \/ ColdStart("gate")
    \/ ColdStart("router")
    \/ GateSteps(GateJobs, SastGateParams)
    \/ RouterSteps(RouterRequests, PortalRouterEvents)

SpecSync == Init /\ [][SyncNext]_vars

\* UserParameters of the worker action of a gated stage: CodePipeline fills
\* them in from the outputVariables the stage's gate job reported
HandedParams(g) ==
    IF codepipeline[g] = <<>> THEN {}
    ELSE LET out == codepipeline[g][1].outputVariables
         IN {[valid_json |-> TRUE,
              stage_name |-> out.stage_name,
              app_name |-> gate[g].params.app_name,
              pipeline_version |-> out.pipeline_version,
              gate_decision |-> out.gate_decision]}

\* one gated stage of one execution: the gate at RunOrder 1, then the worker
\* at RunOrder 2 with the gate's decision
StageNext ==
    \/ ColdStart("gate")
    \/ GateSteps({"gate-job-1"}, GateParams)
    \/ WorkerSteps({"worker-job-1"}, HandedParams("gate-job-1"))

SpecStage == Init /\ [][StageNext]_vars

\* well-formed inputs of two gated stages of one application
TwoStageGateParams ==
    {p \in GateParams :
        /\ p.stage_name \in {"sast", "sca"}
        /\ p.app_name = "drug-research-portal"
        /\ p.pipeline_version = "v1"}

\* a non-gated build and a skipped change approval
TwoStageWorkerParams ==
    {p \in WorkerParams :
        /\ p.app_name = "drug-research-portal"
        /\ p.pipeline_version = "v1"
        /\ \/ p.stage_name = "build" /\ p.gate_decision = Absent
           \/ p.stage_name = "change-approval" /\ p.gate_decision = "skip"}

\* gate jobs and worker jobs of several stages and executions, concurrently
JobsNext ==
    \/ ColdStart("gate")
    \/ GateSteps(GateJobs, TwoStageGateParams)
    \/ WorkerSteps(WorkerJobs, TwoStageWorkerParams)

SpecJobs == Init /\ [][JobsNext]_vars

-----------------------------------------------------------------------------
(* Properties *)

Elems(list) == {list[i] : i \in DOMAIN list}

\* the outputVariables of the calls CodePipeline received for job j
Outputs(j) == {codepipeline[j][i].outputVariables : i \in DOMAIN codepipeline[j]}

GateEnded(g) == g.pc \in {"done", "raised"}
WorkerEnded(w) == w.pc \in {"skipped", "completed", "raised"}

\* C1: every gate and every worker invocation that has ended, on whichever
\* branch (skip, proceed/execute, error), has called the completion callback
\* exactly once for its job id.
ExactlyOneCompletion ==
    /\ \A j \in GateJobs :
          GateEnded(gate[j]) => Len(codepipeline[j]) = 1
    /\ \A j \in WorkerJobs :
          WorkerEnded(worker[j]) => Len(codepipeline[j]) = 1

\* C2: a gate invocation whose parameters lack stage_name has, once ended,
\* reported one failed completion for its job id and emitted no decision.
MissingStageNameFails ==
    \A j \in GateJobs :
       (/\ GateEnded(gate[j])
        /\ gate[j].params.valid_json
        /\ ~HasKey(gate[j].params, "stage_name"))
       => /\ Len(codepipeline[j]) = 1
          /\ codepipeline[j][1].kind = "failure"

\* C3: the gate_decision a gate emits is proceed or skip, and for every served
\* value of the required-stages flag it is proceed exactly when the stage
\* name is among the list's entries, whatever their order and repetition.
GateDecisionIsMembership ==
    \A j \in GateJobs :
       /\ \A o \in Outputs(j) :
             /\ o.gate_decision \in {"proceed", "skip"}
             /\ gate[j].flag.status = "ok" =>
                   o.gate_decision =
                      IF gate[j].params.stage_name \in Elems(gate[j].flag.value)
                      THEN "proceed" ELSE "skip"
       /\ gate[j].pc = "done" => Len(codepipeline[j]) = 1

\* a stage found behind another entry of the list, and one a repeated entry
\* does not name
GateDecisionWitness ==
    /\ gate["gate-job-1"].pc = "done"
    /\ gate["gate-job-1"].flag = FlagOk(<<"build", "sast">>)
    /\ gate["gate-job-1"].params.stage_name = "sast"
    /\ codepipeline["gate-job-1"][1].outputVariables.gate_decision = "proceed"
    /\ gate["gate-job-2"].pc = "done"
    /\ gate["gate-job-2"].flag = FlagOk(<<"sast", "sast">>)
    /\ gate["gate-job-2"].params.stage_name = "build"
    /\ codepipeline["gate-job-2"][1].outputVariables.gate_decision = "skip"

\* C4: a worker invocation that received gate_decision = skip never enters
\* do_stage_work (no call, no output, no sleep), every report it makes says
\* skipped, and with a stage name it ends having made that one report.
SkipDoesNoWork ==
    \A j \in WorkerJobs :
       worker[j].params.gate_decision = "skip" =>
          /\ worker[j].work_calls = 0
          /\ worker[j].output = NoOutput
          /\ worker[j].pc \notin {"executing", "completed"}
          /\ \A o \in Outputs(j) : o.gate_result = "skipped"
          /\ (HasKey(worker[j].params, "stage_name") /\ WorkerEnded(worker[j]))
                => Len(codepipeline[j]) = 1

SkipDoesNoWorkWitness ==
    \E j \in WorkerJobs :
       /\ worker[j].params.gate_decision = "skip"
       /\ worker[j].params.stage_name = "sast"
       /\ worker[j].pc = "skipped"
       /\ Len(codepipeline[j]) = 1

\* C5: a worker invocation whose parameters hold a stage name and no
\* gate_decision key never takes the skip branch; once past the branch it
\* has done the stage's work once, and once ended its one report says
\* executed.
AbsentDecisionExecutes ==
    \A j \in WorkerJobs :
       (/\ worker[j].pc # "idle"
        /\ HasKey(worker[j].params, "stage_name")
        /\ ~HasKey(worker[j].params, "gate_decision"))
       => /\ worker[j].pc \in {"received", "executing", "completed", "raised"}
          /\ worker[j].pc # "received" =>
                /\ worker[j].work_calls = 1
                /\ worker[j].output.slept >= 1
          /\ \A o \in Outputs(j) : o.gate_result = "executed"
          /\ WorkerEnded(worker[j]) => Len(codepipeline[j]) = 1

AbsentDecisionWitness ==
    /\ worker["worker-job-1"].pc = "completed"
    /\ worker["worker-job-1"].params.stage_name = "deploy"
    /\ worker["worker-job-1"].params.gate_decision = Absent
    /\ worker["worker-job-2"].pc = "completed"
    /\ worker["worker-job-2"].params.stage_name = "sast"
    /\ worker["worker-job-2"].params.gate_decision = Absent

\* C6: a router invocation that found pipeline-version undefined or in error
\* resolves v1 and asks for the v1 pipeline; it ends either returning the id
\* of the execution it started, or because the start request itself failed.
RoutingFailsOpen ==
    \A r \in RouterRequests :
       router[r].flag.status \in {"unset", "error"} =>
          /\ router[r].pipeline_version = "v1"
          /\ router[r].pipeline_name = PIPELINE_V1
          /\ router[r].pc \in {"evaluated", "returned", "raised"}
          /\ \A i \in DOMAIN executions[r] :
                executions[r][i].request.name = PIPELINE_V1
          /\ router[r].pc = "returned" =>
                /\ Len(executions[r]) = 1
                /\ executions[r][1].started
                /\ router[r].result.statusCode = 200
                /\ router[r].result.pipeline_name = PIPELINE_V1
                /\ router[r].result.execution_id =
                      executions[r][1].pipelineExecutionId
                /\ router[r].result.execution_id # Absent
          /\ router[r].pc = "raised" =>
                /\ Len(executions[r]) = 1
                /\ ~executions[r][1].started

RoutingFailsOpenWitness ==
    /\ router["request-1"].flag.status = "error"
    /\ router["request-1"].pc = "returned"
    /\ router["request-2"].flag.status = "unset"
    /\ router["request-2"].pc = "returned"

\* C7: every start request names a pipeline of PIPELINE_MAP, and the v1
\* pipeline when the flag served a value that is no key of the table.
TargetIsConfigured ==
    \A r \in RouterRequests :
       /\ \A i \in DOMAIN executions[r] :
             /\ executions[r][i].request.name
                   \in {PIPELINE_MAP[k] : k \in DOMAIN PIPELINE_MAP}
             /\ (/\ router[r].flag.status = "ok"
                 /\ router[r].flag.value \notin DOMAIN PIPELINE_MAP)
                => executions[r][i].request.name = PIPELINE_MAP["v1"]
       /\ router[r].pc = "returned" => Len(executions[r]) = 1

TargetIsConfiguredWitness ==
    \E r \in RouterRequests :
       /\ router[r].flag = FlagOk("v3")
       /\ router[r].pc = "returned"
       /\ executions[r][1].started

\* C8: a gate or router invocation that has evaluated its flag has itself
\* synced before, also beside other invocations of the same process.
SyncBeforeEvaluate ==
    /\ \A j \in GateJobs :
          (gate[j].flag.status # "none" \/ gate[j].pc = "synced")
             => gate[j].synced
    /\ \A r \in RouterRequests :
          (router[r].flag.status # "none" \/ router[r].pc = "synced")
             => router[r].synced

\* both jobs of the gate's process and both requests of the router's have
\* evaluated, the second of each in a process that had synced already
SyncBeforeEvaluateWitness ==
    /\ \A j \in GateJobs : gate[j].flag.status # "none"
    /\ \A r \in RouterRequests : router[r].flag.status # "none"

\* C9: a gate invocation that found pipeline-required-stages undefined or in
\* error requires ALL_STAGES: for a stage of the enumeration every report it
\* makes is a success with gate_decision = proceed, and it makes one.
GateFailsOpen ==
    \A j \in GateJobs :
       gate[j].flag.status \in {"unset", "error"} =>
          /\ gate[j].required_stages = ALL_STAGES
          /\ gate[j].pc \in {"evaluated", "done", "raised"}
          /\ gate[j].params.stage_name \in StageEnum =>
                /\ \A i \in DOMAIN codepipeline[j] :
                      /\ codepipeline[j][i].kind = "success"
                      /\ codepipeline[j][i].outputVariables.gate_decision
                            = "proceed"
                /\ gate[j].pc # "evaluated" => Len(codepipeline[j]) = 1

GateFailsOpenWitness ==
    /\ gate["gate-job-1"].flag.status = "error"
    /\ gate["gate-job-1"].params.stage_name = "sast"
    /\ gate["gate-job-1"].pc = "done"
    /\ gate["gate-job-2"].flag.status = "unset"
    /\ gate["gate-job-2"].params.stage_name = "integration-test"
    /\ gate["gate-job-2"].pc = "done"

\* C10: a router invocation issues at most one start request, and when that
\* request fails it ends raising, with no result and no execution id.
StartFailureIsTerminal ==
    \A r \in RouterRequests :
       /\ Len(executions[r]) <= 1
       /\ (Len(executions[r]) = 1 /\ ~executions[r][1].started) =>
             /\ router[r].pc = "raised"
             /\ router[r].exc = "ClientError"
             /\ router[r].result = NoResult

StartFailureWitness ==
    \E r \in RouterRequests :
       /\ Len(executions[r]) = 1
       /\ ~executions[r][1].started
       /\ router[r].pc = "raised"

\* a decision that is present and is neither proceed nor skip
OtherDecision(w) ==
    /\ HasKey(w.params, "stage_name")
    /\ w.params.gate_decision \notin {Absent, "proceed", "skip"}

\* C11 as claimed: a worker invocation whose gate_decision is present and is
\* neither proceed nor skip does no placeholder work and, once ended, has
\* reported one failure.
OtherDecisionFailsLoudly ==
    \A j \in WorkerJobs :
       OtherDecision(worker[j]) =>
          /\ worker[j].work_calls = 0
          /\ worker[j].pc \notin {"executing", "completed"}
          /\ WorkerEnded(worker[j]) =>
                /\ Len(codepipeline[j]) = 1
                /\ codepipeline[j][1].kind = "failure"

\* C11 as the code has it: such an invocation takes the execute branch, as
\* with proceed: it never skips, does the stage's work once, and every report
\* it makes is a success with gate_result = executed.
OtherDecisionExecutes ==
    \A j \in WorkerJobs :
       OtherDecision(worker[j]) =>
          /\ worker[j].pc \in {"received", "executing", "completed", "raised"}
          /\ worker[j].pc # "received" => worker[j].work_calls = 1
          /\ \A i \in DOMAIN codepipeline[j] :
                /\ codepipeline[j][i].kind = "success"
                /\ codepipeline[j][i].outputVariables.gate_result = "executed"
          /\ WorkerEnded(worker[j]) => Len(codepipeline[j]) = 1

OtherDecisionWitness ==
    \E j \in WorkerJobs :
       /\ worker[j].params.gate_decision = "SKIP"
       /\ worker[j].params.stage_name = "sca"
       /\ worker[j].pc = "completed"
       /\ worker[j].work_calls = 1

\* C12: two gate invocations that evaluated the same flag snapshot for the
\* same app name and stage name emit the same gate_decision, whatever their
\* job ids, their pipeline_version and their order in the process.
GateDeterministic ==
    \A j, k \in GateJobs :
       (/\ gate[j].flag.status # "none"
        /\ gate[j].flag = gate[k].flag
        /\ gate[j].params.app_name = gate[k].params.app_name
        /\ gate[j].params.stage_name = gate[k].params.stage_name)
       => \A o \in Outputs(j), q \in Outputs(k) :
             o.gate_decision = q.gate_decision

\* the second of two invocations agrees with the first on a list that the
\* stage is in, between them a difference of pipeline_version
GateDeterministicWitness ==
    /\ gate["gate-job-1"].pc = "done"
    /\ gate["gate-job-2"].pc = "done"
    /\ gate["gate-job-1"].flag = FlagOk(<<"sast", "build">>)
    /\ gate["gate-job-2"].flag = gate["gate-job-1"].flag
    /\ gate["gate-job-1"].params.stage_name = "build"
    /\ gate["gate-job-2"].params.stage_name = "build"
    /\ gate["gate-job-1"].params.pipeline_version
          # gate["gate-job-2"].params.pipeline_version
    /\ Outputs("gate-job-1") # {}
    /\ Outputs("gate-job-2") # {}

\* C13: a worker invocation that does not skip and whose stage name is not in
\* STAGE_WORK uses the generic placeholder: its outcome is made from the
\* stage name, every report it makes is a success with gate_result =
\* executed carrying that outcome, and only the report call itself can make
\* it raise.
UnknownStageIsGeneric ==
    \A j \in WorkerJobs :
       (/\ HasKey(worker[j].params, "stage_name")
        /\ worker[j].params.stage_name \notin DOMAIN STAGE_WORK
        /\ worker[j].params.gate_decision # "skip"
        /\ worker[j].pc # "received")
       => /\ worker[j].pc \in {"executing", "completed", "raised"}
          /\ worker[j].output.tool = "generic"
          /\ worker[j].output.result =
                worker[j].params.stage_name \o " completed successfully"
          /\ \A i \in DOMAIN codepipeline[j] :
                /\ codepipeline[j][i].kind = "success"
                /\ codepipeline[j][i].outputVariables.gate_result = "executed"
                /\ codepipeline[j][i].outputVariables.tool = "generic"
                /\ codepipeline[j][i].outputVariables.result =
                      worker[j].params.stage_name \o " completed successfully"
          /\ worker[j].pc # "executing" => Len(codepipeline[j]) = 1
          /\ worker[j].pc = "raised" => worker[j].exc = "ClientError"

UnknownStageWitness ==
    \E j \in WorkerJobs :
       /\ worker[j].params.stage_name = "canary-bake"
       /\ worker[j].pc = "completed"
       /\ codepipeline[j][1].outputVariables.result =
             "canary-bake completed successfully"

\* C14: in a process whose LD client failed to initialize no invocation is
\* served: no gate job leaves idle, evaluates or reports, no router request
\* leaves idle, evaluates or starts an execution; and a failed process stays
\* failed.
FailedInitServesNothing ==
    /\ proc["gate"] = "failed" =>
          \A j \in GateJobs : gate[j] = GateIdle /\ codepipeline[j] = <<>>
    /\ proc["router"] = "failed" =>
          \A r \in RouterRequests :
             router[r] = RouterIdle /\ executions[r] = <<>>

\* the gate's process failed at its start while the router's serves
FailedInitWitness ==
    /\ proc["gate"] = "failed"
    /\ proc["router"] = "ready"
    /\ \E r \in RouterRequests : router[r].pc = "returned"

\* C15: a router invocation whose event lacks app_name issues no start
\* request and does not return a result.
MissingAppNameFails ==
    \A r \in RouterRequests :
       (router[r].pc # "idle" /\ ~HasKey(router[r].event, "app_name"))
       => /\ executions[r] = <<>>
          /\ router[r].pc # "returned"

\* C16: in a gated stage whose worker gets the gate's reported decision, the
\* worker reports skipped exactly when the gate reported skip, and does the
\* stage's work exactly when the gate reported proceed; the worker takes no
\* step that reads a flag, so the flag's state after the gate's evaluation
\* has no part in it.
WorkerFollowsGate ==
    LET g == "gate-job-1"
        w == "worker-job-1"
    IN /\ worker[w].pc # "idle" =>
             /\ codepipeline[g] # <<>>
             /\ worker[w].params.stage_name = gate[g].params.stage_name
             /\ worker[w].params.gate_decision
                   = codepipeline[g][1].outputVariables.gate_decision
       /\ \A o \in Outputs(w) :
             o.gate_result = "skipped"
                <=> codepipeline[g][1].outputVariables.gate_decision = "skip"
       /\ worker[w].pc = "skipped" =>
             codepipeline[g][1].outputVariables.gate_decision = "skip"
       /\ worker[w].work_calls = 1 <=>
             (/\ worker[w].pc \in {"executing", "completed", "raised"}
              /\ codepipeline[g][1].outputVariables.gate_decision = "proceed")
       /\ WorkerEnded(worker[w]) => Len(codepipeline[w]) = 1

\* a stage the flag left out: the gate skipped it and the worker reported
\* skipped without working
WorkerFollowsGateWitness ==
    /\ gate["gate-job-1"].flag = FlagOk(<<"build">>)
    /\ gate["gate-job-1"].params.stage_name = "sast"
    /\ worker["worker-job-1"].pc = "skipped"
    /\ worker["worker-job-1"].work_calls = 0
    /\ codepipeline["worker-job-1"][1].outputVariables.gate_result = "skipped"

\* the steps of the two paths RECEIVED -> SKIPPED and RECEIVED -> EXECUTING
\* -> COMPLETED, with the start of an invocation and its end by an exception
WorkerPaths ==
    {<<"idle", "received">>, <<"idle", "raised">>,
     <<"received", "skipped">>, <<"received", "executing">>,
     <<"executing", "completed">>,
     <<"received", "raised">>, <<"executing", "raised">>}

\* C17: every step of a worker invocation is a step of one of the two paths
\* (or the end by an exception): nothing follows SKIPPED, COMPLETED or the
\* exception, EXECUTING is entered from RECEIVED only and so at most once,
\* and SKIPPED is entered from RECEIVED only, never after EXECUTING.
WorkerStateMachine ==
    [][\A j \in WorkerJobs :
          /\ worker'[j].pc # worker[j].pc =>
                <<worker[j].pc, worker'[j].pc>> \in WorkerPaths
          /\ WorkerEnded(worker[j]) =>
                /\ worker'[j] = worker[j]
                /\ codepipeline'[j] = codepipeline[j]
          /\ worker'[j].pc = worker[j].pc =>
                /\ worker'[j] = worker[j]
                /\ codepipeline'[j] = codepipeline[j]
          /\ worker'[j].work_calls <= 1
          /\ worker'[j].work_calls >= worker[j].work_calls]_vars

\* one invocation on each path
WorkerStateMachineWitness ==
    /\ worker["worker-job-1"].pc = "skipped"
    /\ worker["worker-job-1"].work_calls = 0
    /\ worker["worker-job-2"].pc = "completed"
    /\ worker["worker-job-2"].work_calls = 1

\* C18: with gate jobs and worker jobs interleaved, no job id gets more than
\* one completion call, and each call made for a job id carries the stage
\* name, the pipeline version and the decision or result of that job's own
\* invocation.
CallbacksAreOwn ==
    /\ \A j \in Jobs : Len(codepipeline[j]) <= 1
    /\ \A j \in GateJobs : \A o \in Outputs(j) :
          /\ gate[j].pc \in {"done", "raised"}
          /\ o.stage_name = gate[j].params.stage_name
          /\ o.pipeline_version
                = DictGet(gate[j].params, "pipeline_version", "?")
          /\ o.gate_decision =
                IF gate[j].params.stage_name \in Elems(gate[j].required_stages)
                THEN "proceed" ELSE "skip"
    /\ \A j \in WorkerJobs : \A o \in Outputs(j) :
          /\ WorkerEnded(worker[j])
          /\ o.stage_name = worker[j].params.stage_name
          /\ o.pipeline_version
                = DictGet(worker[j].params, "pipeline_version", "?")
          /\ o.gate_result =
                IF worker[j].params.gate_decision = "skip"
                THEN "skipped" ELSE "executed"
          /\ o.tool = worker[j].output.tool
          /\ o.result = worker[j].output.result

\* four jobs have reported, the two gates for different stages with
\* different decisions, the two workers with different results
CallbacksAreOwnWitness ==
    /\ \A j \in Jobs : Len(codepipeline[j]) = 1
    /\ gate["gate-job-1"].params.stage_name = "sast"
    /\ gate["gate-job-2"].params.stage_name = "sca"
    /\ codepipeline["gate-job-1"][1].outputVariables.gate_decision = "proceed"
    /\ codepipeline["gate-job-2"][1].outputVariables.gate_decision = "skip"
    /\ codepipeline["worker-job-1"][1].outputVariables.gate_result = "executed"
    /\ codepipeline["worker-job-2"][1].outputVariables.gate_result = "skipped"

\* C19: the PIPELINE_VERSION variable of a start request, and the
\* pipeline_version of the result returned for it, name the variant whose
\* pipeline the request names: v1 whenever that is the v1 pipeline.
AttachedVariantIsStarted ==
    \A r \in RouterRequests :
       \A i \in DOMAIN executions[r] :
          LET request == executions[r][i].request
          IN /\ request.variables.PIPELINE_VERSION \in DOMAIN PIPELINE_MAP
             /\ PIPELINE_MAP[request.variables.PIPELINE_VERSION] = request.name
             /\ router[r].pc = "returned" =>
                   /\ router[r].result.pipeline_version \in DOMAIN PIPELINE_MAP
                   /\ PIPELINE_MAP[router[r].result.pipeline_version]
                         = router[r].result.pipeline_name

====
